---- MODULE Spec2Model ----
(***************************************************************************)
(* Model of the DRBG benchmark: the three generators of src/src/drbg.rs    *)
(* (ChaCha20Drbg, AesCtrDrbg, Blake3XofDrbg), BitString::count_bits, and   *)
(* the aggregator summarize of src/src/main.rs.                            *)
(*                                                                         *)
(* Cryptographic primitives are idealised: the BLAKE3 XOF output of        *)
(* derive_material is a symbolic term naming (context, length, seed), a    *)
(* keystream byte is a symbolic term naming (key, block, offset).  Distinct *)
(* terms stand for independent bytes.  The 16 bytes that AesCtrDrbg turns  *)
(* into its initial counter are drawn from a function xof chosen in Init.  *)
(*                                                                         *)
(* Machine integers keep their wrap-around but with scaled-down widths:    *)
(* usize has UsizeBits bits, u128 has CounterBits bits, u64 (the BLAKE3    *)
(* call counter) has CallCounterBits bits.                                 *)
(***************************************************************************)
EXTENDS Integers, Sequences, FiniteSets, TLC

VARIABLES
    kind,             \* which Drbg implementation the instances are
    overflow_checks,  \* build profile: TRUE = arithmetic overflow panics (debug)
    xof,              \* seed -> integer value of derive_material(seed,"aes-ctr-drbg",48)[32..48]
    insts,            \* the constructed generator instances
    g,                \* instance -> generator state (the struct's fields)
    seedOf,           \* instance -> seed of the last new / reseed          (history)
    reseeded,         \* instance -> whether reseed was ever called         (history)
    usedBefore,       \* instance -> the last reseed hit an instance that had generated (history)
    last,             \* instance -> last operation: "new", "reseed", "generate"
    calls,            \* instance -> log of the generate_bits calls since the last new / reseed
    panicked,         \* the process aborted on a panic
    bs,               \* the BitString handed to count_bits
    tally,            \* what count_bits did on bs (or NoTally)
    records,          \* the Vec<Record> collected by main
    summaries         \* result of summarize(records) (or NoSummaries)

genVars == <<kind, overflow_checks, xof, insts, g, seedOf, reseeded, usedBefore, last, calls,
            panicked>>
tallyVars == <<bs, tally>>
sumVars == <<records, summaries>>
vars == <<genVars, tallyVars, sumVars>>

----------------------------------------------------------------------------
(* Bounds of the model *)

UsizeBits == 8          \* width of usize in the model
CounterBits == 4        \* width of the AES counter (u128) in the model
CallCounterBits == 2    \* width of the BLAKE3 call counter (u64) in the model
MaxCalls == 4           \* generate_bits calls logged per instance between reseeds
MaxCallsDet == 2        \* the same, in the two-instance specification
TallyBits == 8          \* width of the BitTally fields (u64) in the model
MaxTallyBits == 17      \* largest BitString.bits handed to count_bits
MaxTallyBytes == 3      \* longest BitString.bytes handed to count_bits
MaxRecords == 3         \* records handed to summarize

(* Program constants *)
AES_BLOCK_BYTES == 16
RNG_WORD_BYTES == 4     \* ChaCha20Rng hands out its stream in u32 words

RECURSIVE Pow2(_)
Pow2(n) == IF n = 0 THEN 1 ELSE 2 * Pow2(n - 1)

UsizeMod == Pow2(UsizeBits)
USIZE_MAX == UsizeMod - 1
U128Mod == Pow2(CounterBits)
U64Mod == Pow2(CallCounterBits)

CeilDiv(a, b) == (a + b - 1) \div b
Range(s) == {s[k] : k \in 1..Len(s)}

\* two distinct seeds (opaque byte strings)
Seeds == {"seed-a", "seed-b"}
Kinds == {"ChaCha20 DRBG", "AES-256-CTR DRBG", "BLAKE3 XOF DRBG"}

\* Requested bit lengths: empty, one bit, exactly one AES block, one byte
\* more than a block, and the largest usize.
BitsInputs == {0, 1, 8 * AES_BLOCK_BYTES, 8 * AES_BLOCK_BYTES + 1, USIZE_MAX}
DetBits == {0, 8 * AES_BLOCK_BYTES + 2, USIZE_MAX}
\* Values the 16 counter bytes of the derived material may take.
InitCounters == {0, U128Mod - 2, U128Mod - 1}

----------------------------------------------------------------------------
(* Seed derivation *)

\* derive_material: label, big-endian length, seed fed to the XOF; the
\* output stream is named by its inputs.
derive_material(seed, context, length) ==
    [context |-> context, length |-> length, seed |-> seed]

\* material[from..to]
Slice(material, from, to) == [mat |-> material, from |-> from, to |-> to]

derive_seed(seed, context) == Slice(derive_material(seed, context, 32), 0, 32)

\* u128::from_be_bytes(material[32..48])
CounterFromMaterial(material) == xof[material.seed]

\* (bits + 7) / 8 in usize arithmetic of a build without overflow checks
ByteLen(bits) == ((bits + 7) % UsizeMod) \div 8

\* bits + 7 does not fit in usize
AddOverflows(bits) == bits + 7 > USIZE_MAX

\* one keystream byte
KsByte(key, blk, off) == [key |-> key, blk |-> blk, off |-> off]

----------------------------------------------------------------------------
(* ChaCha20Drbg *)

ChaCha20Rng_from_seed(derived) == [seed |-> derived, index |-> 0]

\* fill_bytes: whole u32 words are consumed, a partly used word is dropped
ChaCha20Rng_fill_bytes(rng, n) ==
    [rng   |-> [rng EXCEPT !.index = rng.index + CeilDiv(n, RNG_WORD_BYTES)],
     bytes |-> [k \in 1..n |-> KsByte(rng.seed,
                                      rng.index + ((k - 1) \div RNG_WORD_BYTES),
                                      (k - 1) % RNG_WORD_BYTES)]]

ChaCha20Drbg_new(seed) ==
    [rng |-> ChaCha20Rng_from_seed(derive_seed(seed, "chacha20-drbg"))]

ChaCha20Drbg_reseed(self, seed) ==
    [self EXCEPT !.rng = ChaCha20Rng_from_seed(derive_seed(seed, "chacha20-drbg"))]

ChaCha20Drbg_generate_bits(self, bits) ==
    LET byte_len == ByteLen(bits)
        filled == ChaCha20Rng_fill_bytes(self.rng, byte_len)
    IN  [self |-> [self EXCEPT !.rng = filled.rng],
         out  |-> [bits |-> bits, bytes |-> filled.bytes]]

----------------------------------------------------------------------------
(* AesCtrDrbg *)

AesCtrDrbg_new(seed) ==
    LET material == derive_material(seed, "aes-ctr-drbg", 48)
    IN  [key |-> Slice(material, 0, 32), counter |-> CounterFromMaterial(material)]

AesCtrDrbg_reseed(self, seed) ==
    LET material == derive_material(seed, "aes-ctr-drbg", 48)
    IN  [self EXCEPT !.key = Slice(material, 0, 32),
                     !.counter = CounterFromMaterial(material)]

\* Ctr128BE keystream over a zeroed buffer: byte k of the call lies in block
\* nonce + k / 16 (128-bit big-endian counter, wrapping)
Aes256Ctr_apply_keystream(key, nonce, n) ==
    [k \in 1..n |-> KsByte(key,
                           (nonce + ((k - 1) \div AES_BLOCK_BYTES)) % U128Mod,
                           (k - 1) % AES_BLOCK_BYTES)]

blocks_used_floor(byte_len) == byte_len \div AES_BLOCK_BYTES

blocks_used(byte_len) == (byte_len + AES_BLOCK_BYTES - 1) \div AES_BLOCK_BYTES

AesCtrDrbg_generate_bits_keep_counter(self, bits) ==
    [self |-> self,
     out  |-> [bits |-> bits,
               bytes |-> Aes256Ctr_apply_keystream(self.key, self.counter, ByteLen(bits))]]

AesCtrDrbg_generate_bits(self, bits) ==
    LET byte_len == ByteLen(bits)
        bytes == Aes256Ctr_apply_keystream(self.key, self.counter, byte_len)
    IN  [self |-> [self EXCEPT !.counter = (self.counter + blocks_used(byte_len)) % U128Mod],
         out  |-> [bits |-> bits, bytes |-> bytes]]

----------------------------------------------------------------------------
(* Blake3XofDrbg *)

Blake3XofDrbg_new(seed) == [key |-> derive_seed(seed, "blake3-xof-drbg"), counter |-> 0]

Blake3XofDrbg_reseed_keep_counter(self, seed) ==
    [self EXCEPT !.key = derive_seed(seed, "blake3-xof-drbg")]

Blake3XofDrbg_reseed(self, seed) ==
    [self EXCEPT !.key = derive_seed(seed, "blake3-xof-drbg"), !.counter = 0]

\* keyed hash of the big-endian call counter, read as an XOF stream
Blake3_keyed_xof(key, counter, n) == [k \in 1..n |-> KsByte(key, counter, k - 1)]

Blake3XofDrbg_generate_bits_skip_empty(self, bits) ==
    LET byte_len == ByteLen(bits)
    IN  [self |-> [self EXCEPT !.counter =
                       IF byte_len = 0 THEN self.counter ELSE (self.counter + 1) % U64Mod],
         out  |-> [bits |-> bits, bytes |-> Blake3_keyed_xof(self.key, self.counter, byte_len)]]

Blake3XofDrbg_generate_bits(self, bits) ==
    LET byte_len == ByteLen(bits)
        bytes == Blake3_keyed_xof(self.key, self.counter, byte_len)
    IN  [self |-> [self EXCEPT !.counter = (self.counter + 1) % U64Mod],
         out  |-> [bits |-> bits, bytes |-> bytes]]

----------------------------------------------------------------------------
(* Dispatch through the Drbg trait *)

Drbg_new(k, seed) ==
    CASE k = "ChaCha20 DRBG"    -> ChaCha20Drbg_new(seed)
      [] k = "AES-256-CTR DRBG" -> AesCtrDrbg_new(seed)
      [] k = "BLAKE3 XOF DRBG"  -> Blake3XofDrbg_new(seed)

Drbg_reseed(k, self, seed) ==
    CASE k = "ChaCha20 DRBG"    -> ChaCha20Drbg_reseed(self, seed)
      [] k = "AES-256-CTR DRBG" -> AesCtrDrbg_reseed(self, seed)
      [] k = "BLAKE3 XOF DRBG"  -> Blake3XofDrbg_reseed(self, seed)

Drbg_generate_bits(k, self, bits) ==
    CASE k = "ChaCha20 DRBG"    -> ChaCha20Drbg_generate_bits(self, bits)
      [] k = "AES-256-CTR DRBG" -> AesCtrDrbg_generate_bits(self, bits)
      [] k = "BLAKE3 XOF DRBG"  -> Blake3XofDrbg_generate_bits(self, bits)

----------------------------------------------------------------------------
(* The generators as a state machine *)

NoTally == [status |-> "none", zeros |-> 0, ones |-> 0]
NoBitString == [bits |-> 0, bytes |-> <<>>]
NoSummaries == <<[none |-> TRUE]>>

IdleTally == bs = NoBitString /\ tally = NoTally
IdleSummary == records = <<>> /\ summaries = NoSummaries
IdleGenerators ==
    /\ kind = "ChaCha20 DRBG" /\ xof = [s \in Seeds |-> 0]
    /\ insts = {} /\ g = <<>> /\ seedOf = <<>> /\ reseeded = <<>> /\ usedBefore = <<>>
    /\ last = <<>> /\ calls = <<>> /\ panicked = FALSE

\* every instance is built by <Variant>::new(seed), as build_generators does
InitGenerators(instances) ==
    /\ kind \in Kinds
    /\ overflow_checks \in BOOLEAN
    /\ xof \in IF kind = "AES-256-CTR DRBG" THEN [Seeds -> InitCounters]
                                            ELSE {[s \in Seeds |-> 0]}
    /\ insts = instances
    /\ seedOf \in [instances -> Seeds]
    /\ g = [i \in instances |-> Drbg_new(kind, seedOf[i])]
    /\ reseeded = [i \in instances |-> FALSE]
    /\ usedBefore = [i \in instances |-> FALSE]
    /\ last = [i \in instances |-> "new"]
    /\ calls = [i \in instances |-> <<>>]
    /\ panicked = FALSE

\* the call returned res: the instance holds res.self, the caller holds res.out
Returned(i, bits, res) ==
    /\ g' = [g EXCEPT ![i] = res.self]
    /\ calls' = [calls EXCEPT ![i] =
                    Append(@, [bits |-> bits, before |-> g[i], after |-> res.self,
                               out |-> res.out])]
    /\ last' = [last EXCEPT ![i] = "generate"]
    /\ UNCHANGED panicked

\* the buffer is not zeroed before the keystream is applied to it
generate_bits_uninit(i, bits) ==
    /\ ~panicked
    /\ Len(calls[i]) < MaxCalls
    /\ IF AddOverflows(bits) /\ overflow_checks
          THEN panicked' = TRUE /\ UNCHANGED <<g, calls, last>>
          ELSE \E junk \in 0..1 :
                 LET res == Drbg_generate_bits(kind, g[i], bits)
                     dirty == [k \in 1..Len(res.out.bytes) |->
                                 [res.out.bytes[k] EXCEPT !.off = @ + 256 * junk]]
                 IN  Returned(i, bits, [res EXCEPT !.out.bytes = dirty])
    /\ UNCHANGED <<kind, overflow_checks, xof, insts, seedOf, reseeded, usedBefore>>
    /\ UNCHANGED <<tallyVars, sumVars>>

\* drbg.generate_bits(bits) on instance i.  bits + 7 panics in a build with
\* overflow checks and wraps in a build without.
generate_bits(i, bits) ==
    /\ ~panicked
    /\ Len(calls[i]) < MaxCalls
    /\ IF AddOverflows(bits) /\ overflow_checks
          THEN panicked' = TRUE /\ UNCHANGED <<g, calls, last>>
          ELSE Returned(i, bits, Drbg_generate_bits(kind, g[i], bits))
    /\ UNCHANGED <<kind, overflow_checks, xof, insts, seedOf, reseeded, usedBefore>>
    /\ UNCHANGED <<tallyVars, sumVars>>

\* drbg.reseed(seed) on instance i
reseed(i, seed) ==
    /\ ~panicked
    /\ g' = [g EXCEPT ![i] = Drbg_reseed(kind, g[i], seed)]
    /\ seedOf' = [seedOf EXCEPT ![i] = seed]
    /\ reseeded' = [reseeded EXCEPT ![i] = TRUE]
    /\ usedBefore' = [usedBefore EXCEPT ![i] = (@ \/ calls[i] # <<>>)]
    /\ last' = [last EXCEPT ![i] = "reseed"]
    /\ calls' = [calls EXCEPT ![i] = <<>>]
    /\ UNCHANGED <<kind, overflow_checks, xof, insts, panicked>>
    /\ UNCHANGED <<tallyVars, sumVars>>

\* One instance of one variant, any lengths
Init == InitGenerators({1}) /\ IdleTally /\ IdleSummary

Next ==
    \/ \E i \in insts, bits \in BitsInputs : generate_bits(i, bits)
    \/ \E i \in insts, seed \in Seeds : reseed(i, seed)

Spec == Init /\ [][Next]_vars

\* Two instances of the same variant, driven independently
InitDet == InitGenerators({1, 2}) /\ IdleTally /\ IdleSummary

NextDet ==
    \/ \E i \in insts, bits \in DetBits :
          Len(calls[i]) < MaxCallsDet /\ generate_bits(i, bits)
    \/ \E i \in insts, seed \in Seeds : reseed(i, seed)

SpecDet == InitDet /\ [][NextDet]_vars

----------------------------------------------------------------------------
(* Properties of the generators *)

AES == "AES-256-CTR DRBG"
BLAKE3 == "BLAKE3 XOF DRBG"

\* the (key, counter-block) pairs a call drew keystream from
Consumed(c) == {<<b.key, b.blk>> : b \in Range(c.out.bytes)}
\* counter blocks covered by the bytes a call produced
BlocksOf(c) == CeilDiv(Len(c.out.bytes), AES_BLOCK_BYTES)

RECURSIVE SumBlocks(_, _, _)
SumBlocks(log, j, k) == IF j > k THEN 0 ELSE BlocksOf(log[j]) + SumBlocks(log, j + 1, k)

\* the counter did not wrap from the start of call j to the end of call k
NoWrap(log, j, k) == log[j].before.counter + SumBlocks(log, j, k) < U128Mod

\* C1: AES-256-CTR, one key, no counter wraparound: a call that starts at
\* counter c and produces n bytes draws its keystream from exactly the blocks
\* c .. c + ceil(n/16) - 1, a later call starts past the range of every
\* earlier call, and no (key, block) pair is drawn from by two calls.
C1_DisjointBlockRanges ==
    kind = AES =>
      \A i \in insts : \A j, k \in 1..Len(calls[i]) :
        (j < k /\ NoWrap(calls[i], j, k)) =>
          LET cj == calls[i][j]
              ck == calls[i][k]
          IN  /\ Consumed(cj) = {<<cj.before.key, cj.before.counter + t>> :
                                   t \in 0..(BlocksOf(cj) - 1)}
              /\ Consumed(ck) = {<<ck.before.key, ck.before.counter + t>> :
                                   t \in 0..(BlocksOf(ck) - 1)}
              /\ ck.before.counter >= cj.before.counter + BlocksOf(cj)
              /\ Consumed(cj) \cap Consumed(ck) = {}

\* two calls under one key, the first spanning two blocks, no wraparound
C1_Witness ==
    /\ kind = AES
    /\ \E i \in insts : \E j, k \in 1..Len(calls[i]) :
         /\ j < k /\ NoWrap(calls[i], j, k)
         /\ BlocksOf(calls[i][j]) = 2
         /\ BlocksOf(calls[i][k]) >= 1

\* C2: BLAKE3 keyed XOF: the call counter is 0 after new or reseed; every
\* completed generate_bits call reads its output under the counter held
\* before the call and leaves counter + 1 mod 2^64 and the same key; the
\* (key, counter) pairs of calls less than 2^64 calls apart are distinct.
C2_Blake3CallCounter ==
    kind = BLAKE3 =>
      \A i \in insts :
        /\ last[i] \in {"new", "reseed"} => g[i].counter = 0
        /\ \A k \in 1..Len(calls[i]) :
             LET c == calls[i][k]
             IN  /\ c.before.counter = (k - 1) % U64Mod
                 /\ c.after.counter = (c.before.counter + 1) % U64Mod
                 /\ c.after.key = c.before.key
                 /\ \A b \in Range(c.out.bytes) :
                      b.key = c.before.key /\ b.blk = c.before.counter
        /\ \A j, k \in 1..Len(calls[i]) :
             (j < k /\ k - j < U64Mod) =>
               <<calls[i][j].before.key, calls[i][j].before.counter>> #
               <<calls[i][k].before.key, calls[i][k].before.counter>>

\* after a reseed, a call for 0 bits is followed by a call that returns bytes
C2_Witness ==
    /\ kind = BLAKE3
    /\ \E i \in insts :
         /\ reseeded[i] /\ Len(calls[i]) >= 2
         /\ calls[i][1].bits = 0
         /\ Len(calls[i][2].out.bytes) > 0

\* C3: for every usize value of bits, generate_bits returns a BitString with
\* the requested bits and a buffer of exactly ceil(bits/8) bytes.
C3_BufferLengthAllBits ==
    /\ ~panicked
    /\ \A i \in insts : \A k \in 1..Len(calls[i]) :
         /\ calls[i][k].out.bits = calls[i][k].bits
         /\ Len(calls[i][k].out.bytes) = CeilDiv(calls[i][k].bits, 8)

Lengths(log) == [k \in 1..Len(log) |-> log[k].bits]

\* instances i and j agree on every call up to the first length that differs
AgreeOnCommonPrefix(i, j) ==
    \A k \in 1..Len(calls[i]) :
      (k <= Len(calls[j]) /\ SubSeq(Lengths(calls[i]), 1, k) = SubSeq(Lengths(calls[j]), 1, k))
        => /\ calls[i][k].out = calls[j][k].out
           /\ calls[i][k].after = calls[j][k].after

C5_ReseedIsReinit ==
    \A i \in insts :
      /\ last[i] = "reseed" => g[i] = Drbg_new(kind, seedOf[i])
      /\ \A j \in insts :
           (reseeded[i] /\ ~reseeded[j] /\ seedOf[i] = seedOf[j]) =>
             /\ AgreeOnCommonPrefix(i, j)
             /\ Lengths(calls[i]) = Lengths(calls[j]) => g[i] = g[j]

\* instance 1 generated, was reseeded, and repeated what fresh instance 2 did
C5_Witness ==
    /\ reseeded[1] /\ usedBefore[1] /\ ~reseeded[2] /\ seedOf[1] = seedOf[2]
    /\ Len(calls[1]) = 2
    /\ Lengths(calls[1]) = Lengths(calls[2])
    /\ \A k \in 1..2 : Len(calls[1][k].out.bytes) > 0

\* C9 as claimed: every AES-256-CTR generate_bits call changes the counter
\* and keeps the key.
C9_CounterAlwaysAdvances ==
    kind = AES =>
      \A i \in insts : \A k \in 1..Len(calls[i]) :
        /\ calls[i][k].after.counter # calls[i][k].before.counter
        /\ calls[i][k].after.key = calls[i][k].before.key

\* C9 amended: a call that returns a non-empty buffer moves the counter
\* forward by ceil(len/16) mod 2^128, which is not 0; a call that returns an
\* empty buffer leaves it as it was; the key is the one set by new / reseed.
C9_CounterAdvancesWithBytes ==
    kind = AES =>
      \A i \in insts : \A k \in 1..Len(calls[i]) :
        LET c == calls[i][k]
            step == (c.after.counter - c.before.counter) % U128Mod
        IN  /\ c.after.key = c.before.key
            /\ c.before.key = AesCtrDrbg_new(seedOf[i]).key
            /\ step = BlocksOf(c)
            /\ Len(c.out.bytes) > 0 => c.after.counter # c.before.counter
            /\ Len(c.out.bytes) = 0 => c.after.counter = c.before.counter

\* a call for 0 bits and a call that returned bytes, on one instance
C9_Witness ==
    /\ kind = AES
    /\ \E i \in insts : \E j, k \in 1..Len(calls[i]) :
         /\ calls[i][j].bits = 0
         /\ Len(calls[i][k].out.bytes) > 0

\* C10: an AES-256-CTR call for bits, n = ceil(bits/8), starts its keystream
\* at the counter held before the call and leaves counter + ceil(n/16)
\* mod 2^128.
C10_CounterAdvance ==
    kind = AES =>
      \A i \in insts : \A k \in 1..Len(calls[i]) :
        LET c == calls[i][k]
            n == CeilDiv(c.bits, 8)
        IN  /\ Len(c.out.bytes) > 0 => c.out.bytes[1].blk = c.before.counter
            /\ c.after.counter = (c.before.counter + CeilDiv(n, AES_BLOCK_BYTES)) % U128Mod

----------------------------------------------------------------------------
(* BitString::count_bits *)

TallyMod == Pow2(TallyBits)
Min(a, b) == IF a < b THEN a ELSE b

\* u8::count_ones
count_ones(byte) == Cardinality({i \in 0..7 : (byte \div Pow2(i)) % 2 = 1})

\* ones += byte.count_ones() over self.bytes.iter().take(full_bytes)
RECURSIVE FullByteOnes(_, _)
FullByteOnes(bytes, n) ==
    IF n = 0 THEN 0 ELSE FullByteOnes(bytes, n - 1) + count_ones(bytes[n])

RemainderOnes_lsb_first(byte, remainder) ==
    Cardinality({i \in 0..(remainder - 1) : (byte \div Pow2(i)) % 2 = 1})

RemainderOnes_whole_byte(byte, remainder) == count_ones(byte)

\* for i in 0..remainder: if ((byte >> (7 - i)) & 1) == 1 then ones += 1
RemainderOnes(byte, remainder) ==
    Cardinality({i \in 0..(remainder - 1) : (byte \div Pow2(7 - i)) % 2 = 1})

\* count_bits on self in a build with (checks = TRUE) or without overflow
\* checks.  self.bytes[full_bytes] panics when it is out of bounds; the u64
\* subtraction panics or wraps when ones exceeds bits.
count_bits(self, checks) ==
    LET full_bytes == self.bits \div 8
        remainder == self.bits % 8
        taken == Min(full_bytes, Len(self.bytes))
        ones_full == FullByteOnes(self.bytes, taken)
    IN  IF remainder > 0 /\ full_bytes >= Len(self.bytes)
          THEN [status |-> "panic", zeros |-> 0, ones |-> 0]
          ELSE LET ones == ones_full +
                           (IF remainder > 0
                              THEN RemainderOnes(self.bytes[full_bytes + 1], remainder)
                              ELSE 0)
               IN  IF ones > self.bits /\ checks
                     THEN [status |-> "panic", zeros |-> 0, ones |-> 0]
                     ELSE [status |-> "ok", ones |-> ones,
                           zeros |-> (self.bits - ones) % TallyMod]

\* byte values a buffer is filled from; 176 = 0b10110000
ByteVals == {0, 1, 128, 176, 255}

RECURSIVE SeqsUpTo(_, _)
SeqsUpTo(S, n) ==
    IF n = 0 THEN {<<>>}
    ELSE LET shorter == SeqsUpTo(S, n - 1)
         IN  shorter \cup {Append(q, x) : q \in {t \in shorter : Len(t) = n - 1}, x \in S}

InitTally ==
    /\ IdleGenerators /\ IdleSummary
    /\ overflow_checks \in BOOLEAN
    /\ bs \in [bits : 0..MaxTallyBits, bytes : SeqsUpTo(ByteVals, MaxTallyBytes)]
    /\ tally = NoTally

\* bitstring.count_bits()
CountBits ==
    /\ tally = NoTally
    /\ tally' = count_bits(bs, overflow_checks)
    /\ UNCHANGED <<bs, genVars, sumVars>>

NextTally == CountBits

SpecTally == InitTally /\ [][NextTally]_vars

\* C6: when the buffer has at least ceil(bits/8) bytes, count_bits returns,
\* with ones <= bits and zeros + ones = bits.
C6_TallyAddsUp ==
    (tally # NoTally /\ Len(bs.bytes) >= CeilDiv(bs.bits, 8)) =>
      /\ tally.status = "ok"
      /\ tally.ones <= bs.bits
      /\ tally.zeros + tally.ones = bs.bits

\* a counted BitString with a partial last byte, holding ones and zeros
C6_Witness ==
    /\ tally.status = "ok"
    /\ bs.bits % 8 > 0 /\ bs.bits > 8
    /\ Len(bs.bytes) = CeilDiv(bs.bits, 8)
    /\ tally.ones > 0 /\ tally.zeros > 0

\* logical bit i of the buffer, most significant bit of each byte first
LogicalBit(bytes, i) == (bytes[(i \div 8) + 1] \div Pow2(7 - (i % 8))) % 2

\* the buffers that differ from b only in the padding bits of the last
\* used byte and in bytes past ceil(bits/8)
PaddingVariants(b) ==
    LET used == CeilDiv(b.bits, 8)
        remainder == b.bits % 8
        unit == Pow2(8 - remainder)
        head == SubSeq(b.bytes, 1, used)
        heads == IF remainder = 0 THEN {head}
                 ELSE {[head EXCEPT ![used] = (@ \div unit) * unit + pad] :
                         pad \in 0..(unit - 1)}
    IN  {[bits |-> b.bits, bytes |-> h \o tail] :
           h \in heads, tail \in {<<>>} \cup {<<x>> : x \in ByteVals}}

\* C7: ones is the number of set bits among the first `bits` logical bits,
\* most significant bit first; padding bits and bytes past ceil(bits/8) do
\* not change the tally; 0b10110000 with bits = 3 gives ones = 2, zeros = 1.
C7_CountsLogicalBits ==
    (tally # NoTally /\ Len(bs.bytes) >= CeilDiv(bs.bits, 8)) =>
      /\ tally.ones = Cardinality({i \in 0..(bs.bits - 1) : LogicalBit(bs.bytes, i) = 1})
      /\ \A v \in PaddingVariants(bs) : count_bits(v, overflow_checks) = tally
      /\ (bs.bits = 3 /\ bs.bytes = <<176>>) => (tally.ones = 2 /\ tally.zeros = 1)

\* 0b10110000 counted with bits = 3: a set padding bit is left out
C7_Witness ==
    /\ bs = [bits |-> 3, bytes |-> <<176>>]
    /\ tally = [status |-> "ok", ones |-> 2, zeros |-> 1]

----------------------------------------------------------------------------
(* summarize *)

\* the UTF-8 bytes of the name() strings: String orders by them
NameBytes(name) ==
    CASE name = "ChaCha20 DRBG" ->
           <<67, 104, 97, 67, 104, 97, 50, 48, 32, 68, 82, 66, 71>>
      [] name = "AES-256-CTR DRBG" ->
           <<65, 69, 83, 45, 50, 53, 54, 45, 67, 84, 82, 32, 68, 82, 66, 71>>
      [] name = "BLAKE3 XOF DRBG" ->
           <<66, 76, 65, 75, 69, 51, 32, 88, 79, 70, 32, 68, 82, 66, 71>>

\* <[u8] as Ord>::lt: lexicographic, a proper prefix is smaller
RECURSIVE BytesLess(_, _)
BytesLess(a, b) ==
    IF b = <<>> THEN FALSE
    ELSE IF a = <<>> THEN TRUE
    ELSE IF Head(a) # Head(b) THEN Head(a) < Head(b)
    ELSE BytesLess(Tail(a), Tail(b))

KeyLess_bits_first(k1, k2) ==
    \/ k1[2] < k2[2]
    \/ k1[2] = k2[2] /\ BytesLess(NameBytes(k1[1]), NameBytes(k2[1]))

\* (String, usize) as Ord: by the string, then by the number
KeyLess(k1, k2) ==
    \/ BytesLess(NameBytes(k1[1]), NameBytes(k2[1]))
    \/ k1[1] = k2[1] /\ k1[2] < k2[2]

\* grouped.entry(key).or_default().push(r) on a BTreeMap kept as the
\* sequence of its entries in key order
BTreeMap_entry_push(map, key, r) ==
    IF \E k \in 1..Len(map) : map[k].key = key
      THEN [k \in 1..Len(map) |->
              IF map[k].key = key
                THEN [map[k] EXCEPT !.samples = Append(@, r)]
                ELSE map[k]]
      ELSE LET below == Cardinality({k \in 1..Len(map) : KeyLess(map[k].key, key)})
           IN  SubSeq(map, 1, below) \o <<[key |-> key, samples |-> <<r>>]>>
                 \o SubSeq(map, below + 1, Len(map))

RECURSIVE Grouped(_, _)
Grouped(recs, n) ==
    IF n = 0 THEN <<>>
    ELSE BTreeMap_entry_push(Grouped(recs, n - 1), <<recs[n].generator, recs[n].bits>>, recs[n])

RECURSIVE SumOver(_, _, _)
SumOver(samples, n, field) ==
    IF n = 0 THEN 0 ELSE SumOver(samples, n - 1, field) + samples[n][field]

\* mean as the exact fraction <<sum, count>>; 0 for no samples
mean(samples, field) ==
    IF Len(samples) = 0 THEN <<0, 1>> ELSE <<SumOver(samples, Len(samples), field), Len(samples)>>

\* One Summary per entry of the map, in the map's order.  The means are
\* exact fractions; the two f64 standard deviations are left out.
summarize(recs) ==
    LET grouped == Grouped(recs, Len(recs))
    IN  [k \in 1..Len(grouped) |->
           LET samples == grouped[k].samples
               ones_mean == mean(samples, "ones")
           IN  [generator |-> grouped[k].key[1],
                bits |-> grouped[k].key[2],
                runs |-> Len(samples),
                mean_time_ms |-> mean(samples, "duration_ms"),
                mean_ones_ratio |-> <<ones_mean[1], ones_mean[2] * grouped[k].key[2]>>,
                storage_bytes |-> samples[1].storage_bytes]]

\* the records main can push: two runs, the two smallest TARGET_LENGTHS
RecordInputs ==
    {[run |-> run, generator |-> name, bits |-> bits, duration_ms |-> 1 + 2 * run,
      storage_bytes |-> CeilDiv(bits, 8), zeros |-> bits - (bits \div 2) - run,
      ones |-> (bits \div 2) + run] :
       run \in 0..1, name \in Kinds, bits \in {10000, 100000}}

InitSummary ==
    /\ IdleGenerators /\ IdleTally
    /\ overflow_checks = TRUE
    /\ records = <<>>
    /\ summaries = NoSummaries

\* records.push(Record { .. })
push_record(r) ==
    /\ summaries = NoSummaries
    /\ Len(records) < MaxRecords
    /\ records' = Append(records, r)
    /\ UNCHANGED <<summaries, genVars, tallyVars>>

\* let summaries = summarize(&records)
run_summarize ==
    /\ summaries = NoSummaries
    /\ summaries' = summarize(records)
    /\ UNCHANGED <<records, genVars, tallyVars>>

NextSummary ==
    \/ \E r \in RecordInputs : push_record(r)
    \/ run_summarize

SpecSummary == InitSummary /\ [][NextSummary]_vars

RecordKeys(recs) == {<<recs[n].generator, recs[n].bits>> : n \in 1..Len(recs)}
SummaryKey(sm) == <<sm.generator, sm.bits>>
\* position of each name in byte order: "AES.." < "BLAKE3.." < "ChaCha20.."
NameRank(name) ==
    CASE name = "AES-256-CTR DRBG" -> 1 [] name = "BLAKE3 XOF DRBG" -> 2 [] name = "ChaCha20 DRBG" -> 3
RECURSIVE SumRuns(_, _)
SumRuns(sms, n) == IF n = 0 THEN 0 ELSE SumRuns(sms, n - 1) + sms[n].runs
Reorderings(n) == {f \in [1..n -> 1..n] : \A a, b \in 1..n : f[a] = f[b] => a = b}

\* C8: one Summary per distinct (generator, bits) of the records, runs = the
\* number of records of that group, summaries strictly ascending by name
\* and then by bits, the same for every order of the same records.
C8_SummaryGroupsAndOrder ==
    summaries # NoSummaries =>
      /\ {SummaryKey(summaries[k]) : k \in 1..Len(summaries)} = RecordKeys(records)
      /\ Len(summaries) = Cardinality(RecordKeys(records))
      /\ \A k \in 1..Len(summaries) :
           summaries[k].runs =
             Cardinality({n \in 1..Len(records) :
                            <<records[n].generator, records[n].bits>> = SummaryKey(summaries[k])})
      /\ SumRuns(summaries, Len(summaries)) = Len(records)
      /\ \A k \in 1..(Len(summaries) - 1) :
           \/ NameRank(summaries[k].generator) < NameRank(summaries[k + 1].generator)
           \/ /\ summaries[k].generator = summaries[k + 1].generator
              /\ summaries[k].bits < summaries[k + 1].bits
      /\ \A f \in Reorderings(Len(records)) :
           LET other == summarize([n \in 1..Len(records) |-> records[f[n]]])
           IN  /\ Len(other) = Len(summaries)
               /\ \A k \in 1..Len(other) :
                    /\ SummaryKey(other[k]) = SummaryKey(summaries[k])
                    /\ other[k].runs = summaries[k].runs

\* records pushed out of key order, two of them in one group, summarized
C8_Witness ==
    /\ summaries # NoSummaries
    /\ Len(records) = 3
    /\ Len(summaries) = 2
    /\ KeyLess(<<records[3].generator, records[3].bits>>,
               <<records[1].generator, records[1].bits>>)
    /\ \E k \in 1..2 : summaries[k].runs = 2

====
